---------------------------- MODULE Spec2Model ----------------------------
(***************************************************************************)
(* Model of doorstop/core/processor.py: the document tree (class Node),    *)
(* its assembly from a list of documents (Node.from_list, Node.place),     *)
(* the creation of a document in an existing tree (Node.new) and the       *)
(* resolution of item IDs (Node.link, Node.edit).                          *)
(***************************************************************************)
EXTENDS Integers, Sequences, FiniteSets

VARIABLES
    documents,  \* the Document objects, in the order of the list given to from_list
    nodes,      \* the Node objects: node 1 is the tree returned by from_list
    storage,    \* the document paths that exist on disk
    links,      \* per item, the IDs passed to its add_link, in call order
    result,     \* what the last call returned or raised
    pc          \* "start" before from_list, then "tree" or "failed"

vars == <<documents, nodes, storage, links, result, pc>>

---------------------------------------------------------------------------
(* Bounds of the model *)

MaxDocs == 3
MaxTreeDocs == 2
MaxNew == 1
MaxItemDocs == 2
MaxNumber == 1
MaxLinks == 1

---------------------------------------------------------------------------
(* Values *)

None == "None"

Prefixes == {"REQ", "req", "HLT", "TST"}

TreePrefixes == {"REQ", "req", "HLT"}

ItemPrefixes == {"REQ", "HLT"}

IDPrefixes == {"REQ", "req", "HLT"}

\* str.lower() on the prefixes of the model
lower(s) ==
    CASE s = "REQ" -> "req"
      [] s = "HLT" -> "hlt"
      [] s = "TST" -> "tst"
      [] OTHER -> s

\* Node.__init__: a node with no children yet
Node(document, parent) ==
    [document |-> document, parent |-> parent, children |-> <<>>]

\* a list.remove(x) that drops the head of the list instead (list.pop(0))
RemoveHead(list, x) == Tail(list)

\* list.remove(x): the list without the first element equal to x
RECURSIVE Remove(_, _)
Remove(list, x) ==
    IF list = <<>> THEN <<>>
    ELSE IF Head(list) = x THEN Tail(list)
    ELSE <<Head(list)>> \o Remove(Tail(list), x)

---------------------------------------------------------------------------
(* Node.__iter__: the documents of the subtree of node n, in pre-order *)

RECURSIVE Iter(_, _), IterChildren(_, _, _)
Iter(ns, n) ==
    <<ns[n].document>> \o IterChildren(ns, ns[n].children, 1)

IterChildren(ns, children, i) ==
    IF i > Len(children) THEN <<>>
    ELSE Iter(ns, children[i]) \o IterChildren(ns, children, i + 1)

---------------------------------------------------------------------------
(* Node.place: attach document doc in the subtree of node self.  The       *)
(* result says whether DoorstopError was raised and gives the nodes.       *)

RECURSIVE place(_, _, _, _), placeInChildren(_, _, _, _, _)

\* a place that builds the child as Node(doc), without the parent
placeNoParent(docs, ns, self, doc) ==
    IF docs[doc].parent = docs[ns[self].document].prefix
    THEN [raised |-> FALSE,
          nodes |-> Append([ns EXCEPT ![self].children = Append(@, Len(ns) + 1)],
                           Node(doc, 0))]
    ELSE placeInChildren(docs, ns, self, doc, 1)

place(docs, ns, self, doc) ==
    IF docs[doc].parent = docs[ns[self].document].prefix
    THEN [raised |-> FALSE,
          nodes |-> Append([ns EXCEPT ![self].children = Append(@, Len(ns) + 1)],
                           Node(doc, self))]
    ELSE placeInChildren(docs, ns, self, doc, 1)

placeInChildren(docs, ns, self, doc, i) ==
    IF i > Len(ns[self].children)
    THEN [raised |-> TRUE, nodes |-> ns]
    ELSE LET r == place(docs, ns, ns[self].children[i], doc)
         IN IF r.raised
            THEN placeInChildren(docs, ns, self, doc, i + 1)
            ELSE r

---------------------------------------------------------------------------
(* Node.from_list *)

\* a root search without the break: the last document whose parent is None
FirstRootNoBreak(docs, i) ==
    LET S == {j \in i..Len(docs) : docs[j].parent = None}
    IN IF S = {} THEN 0 ELSE CHOOSE x \in S : \A y \in S : y <= x

\* the first document of the list whose parent is None, 0 when there is none
RECURSIVE FirstRoot(_, _)
FirstRoot(docs, i) ==
    IF i > Len(docs) THEN 0
    ELSE IF docs[i].parent = None THEN i
    ELSE FirstRoot(docs, i + 1)

\* one run of the inner for loop over the snapshot todo of unplaced
RECURSIVE Pass(_, _, _, _)
Pass(docs, ns, todo, unplaced) ==
    IF todo = <<>> THEN [nodes |-> ns, unplaced |-> unplaced]
    ELSE LET r == place(docs, ns, 1, Head(todo))
         IN IF r.raised
            THEN Pass(docs, ns, Tail(todo), unplaced)
            ELSE Pass(docs, r.nodes, Tail(todo), Remove(unplaced, Head(todo)))

RECURSIVE PlaceAll(_, _, _, _)

\* a while loop whose error names the last unplaced document
PlaceAllNamesLast(docs, ns, unplaced, passes) ==
    IF unplaced = <<>>
    THEN [raised |-> "none", arg |-> None, nodes |-> ns,
          passes |-> Append(passes, unplaced)]
    ELSE LET p == Pass(docs, ns, unplaced, unplaced)
         IN IF Len(p.unplaced) = Len(unplaced)
            THEN [raised |-> "unplaced document", arg |-> p.unplaced[Len(p.unplaced)],
                  nodes |-> <<>>, passes |-> Append(Append(passes, unplaced), p.unplaced)]
            ELSE PlaceAll(docs, p.nodes, p.unplaced, Append(passes, unplaced))

\* a single pass instead of the while loop
PlaceAllOnce(docs, ns, unplaced, passes) ==
    LET p == Pass(docs, ns, unplaced, unplaced)
    IN IF p.unplaced = <<>>
       THEN [raised |-> "none", arg |-> None, nodes |-> p.nodes,
             passes |-> <<unplaced, p.unplaced>>]
       ELSE [raised |-> "unplaced document", arg |-> p.unplaced[1],
             nodes |-> <<>>, passes |-> <<unplaced, p.unplaced, p.unplaced>>]

\* the while loop; passes records unplaced at the start of every pass
PlaceAll(docs, ns, unplaced, passes) ==
    IF unplaced = <<>>
    THEN [raised |-> "none", arg |-> None, nodes |-> ns,
          passes |-> Append(passes, unplaced)]
    ELSE LET p == Pass(docs, ns, unplaced, unplaced)
         IN IF Len(p.unplaced) = Len(unplaced)
            THEN [raised |-> "unplaced document", arg |-> p.unplaced[1],
                  nodes |-> <<>>, passes |-> Append(Append(passes, unplaced), p.unplaced)]
            ELSE PlaceAll(docs, p.nodes, p.unplaced, Append(passes, unplaced))

from_list(docs) ==
    LET root == FirstRoot(docs, 1)
        all == [i \in 1..Len(docs) |-> i]
    IN IF root = 0
       THEN [raised |-> "no root document", arg |-> None, nodes |-> <<>>,
             passes |-> <<>>, root |-> 0]
       ELSE LET r == PlaceAll(docs, <<Node(root, 0)>>, Remove(all, root), <<>>)
            IN [raised |-> r.raised, arg |-> r.arg, nodes |-> r.nodes,
                passes |-> r.passes, root |-> root]

---------------------------------------------------------------------------
(* Initial states: the list of documents found on disk *)

\* the items of a document: none, or the numbers 1..maxNumber in order
ItemLists(maxNumber) == {<<>>, [i \in 1..maxNumber |-> i]}

DocumentLists(maxDocs, prefixes, itemLists) ==
    UNION {[1..n -> [prefix : prefixes, parent : prefixes \cup {None},
                     items : itemLists]] : n \in 0..maxDocs}

Items(docs) ==
    UNION {{<<d, docs[d].items[k]>> : k \in 1..Len(docs[d].items)} : d \in 1..Len(docs)}

InitWith(lists) ==
    /\ \E l \in lists :
          documents = [i \in 1..Len(l) |->
                          [prefix |-> l[i].prefix, parent |-> l[i].parent,
                           items |-> l[i].items, path |-> i]]
    /\ nodes = <<>>
    /\ storage = {documents[i].path : i \in 1..Len(documents)}
    /\ links = [it \in Items(documents) |-> <<>>]
    /\ result = [op |-> "none"]
    /\ pc = "start"

InitAssemble == InitWith(DocumentLists(MaxDocs, Prefixes, {<<>>}))

---------------------------------------------------------------------------
(* Actions *)

FromList ==
    /\ pc = "start"
    /\ LET r == from_list(documents)
       IN /\ nodes' = r.nodes
          /\ result' = [op |-> "from_list", raised |-> r.raised, arg |-> r.arg,
                        root |-> r.root, passes |-> r.passes]
          /\ pc' = IF r.raised = "none" THEN "tree" ELSE "failed"
    /\ UNCHANGED <<documents, storage, links>>

\* Document.new: a document object for a new directory at path; it raises
\* when the path already holds a document
DocumentNew(path, prefix, parent) ==
    [raised |-> path \in storage,
     document |-> [prefix |-> prefix, parent |-> parent, items |-> <<>>,
                   path |-> path]]

\* a new that leaves the directory of the unplaced document on disk
NewNoRollback(self, path, prefix, parent) ==
    LET args == [path |-> path, prefix |-> prefix, parent |-> parent]
        made == DocumentNew(path, prefix, parent)
        docs == Append(documents, made.document)
        r == place(docs, nodes, self, Len(docs))
    IN /\ pc = "tree"
       /\ Len(nodes) < MaxTreeDocs + MaxNew
       /\ IF made.raised
          THEN /\ result' = [op |-> "new", raised |-> "Document.new", arg |-> path,
                             ret |-> None]
               /\ UNCHANGED <<documents, nodes, storage>>
          ELSE IF r.raised
          THEN /\ storage' = storage \cup {path}
               /\ result' = [op |-> "new", args |-> args,
                             raised |-> "no parent for", arg |-> made.document,
                             ret |-> None]
               /\ UNCHANGED <<documents, nodes>>
          ELSE /\ documents' = docs
               /\ nodes' = r.nodes
               /\ storage' = storage \cup {path}
               /\ result' = [op |-> "new", args |-> args,
                             raised |-> "none", arg |-> None, ret |-> Len(docs)]
       /\ UNCHANGED <<links, pc>>

\* Node.new, called on node self
New(self, path, prefix, parent) ==
    LET args == [path |-> path, prefix |-> prefix, parent |-> parent]
        made == DocumentNew(path, prefix, parent)
        docs == Append(documents, made.document)
        r == place(docs, nodes, self, Len(docs))
    IN /\ pc = "tree"
       /\ Len(nodes) < MaxTreeDocs + MaxNew
       /\ IF made.raised
          THEN /\ result' = [op |-> "new", raised |-> "Document.new", arg |-> path,
                             ret |-> None]
               /\ UNCHANGED <<documents, nodes, storage>>
          ELSE IF r.raised
          THEN /\ storage' = (storage \cup {path}) \ {path}
               /\ result' = [op |-> "new", args |-> args,
                             raised |-> "no parent for", arg |-> made.document,
                             ret |-> None]
               /\ UNCHANGED <<documents, nodes>>
          ELSE /\ documents' = docs
               /\ nodes' = r.nodes
               /\ storage' = storage \cup {path}
               /\ result' = [op |-> "new", args |-> args,
                             raised |-> "none", arg |-> None, ret |-> Len(docs)]
       /\ UNCHANGED <<links, pc>>

\* Item.split_id: the prefix and the number of an ID such as REQ1, which the
\* model writes <<"REQ", 1>>
split_id(id) == [prefix |-> id[1], number |-> id[2]]

\* Item.id of the item with this number in document d
id(docs, d, number) == <<docs[d].prefix, number>>

\* None in a variable that holds an item
NoItem == [document |-> 0, number |-> 0]

\* the inner loop of link and edit: the first item of document d with the
\* number, NoItem when it has none
RECURSIVE FindNumber(_, _, _, _)
FindNumber(docs, d, number, k) ==
    IF k > Len(docs[d].items) THEN NoItem
    ELSE IF docs[d].items[k] = number THEN [document |-> d, number |-> number]
    ELSE FindNumber(docs, d, number, k + 1)

\* the search of link, for the child and for the parent, over the documents
\* order = list(self): a document without the number does not end the search
RECURSIVE LinkFind(_, _, _, _, _)
LinkFind(docs, order, prefix, number, i) ==
    IF i > Len(order) THEN NoItem
    ELSE IF lower(docs[order[i]].prefix) = lower(prefix)
            /\ FindNumber(docs, order[i], number, 1) # NoItem
    THEN FindNumber(docs, order[i], number, 1)
    ELSE LinkFind(docs, order, prefix, number, i + 1)

\* the search of edit: the first document with the prefix ends the search
RECURSIVE EditFind(_, _, _, _, _)
EditFind(docs, order, prefix, number, i) ==
    IF i > Len(order) THEN NoItem
    ELSE IF lower(docs[order[i]].prefix) = lower(prefix)
    THEN FindNumber(docs, order[i], number, 1)
    ELSE EditFind(docs, order, prefix, number, i + 1)

LinkCount ==
    Cardinality({e \in (DOMAIN links) \X (1..MaxLinks) : e[2] <= Len(links[e[1]])})

\* a link that records the link on the parent item
LinkOnParent(cid, pid) ==
    LET order == Iter(nodes, 1)
        c == split_id(cid)
        p == split_id(pid)
        child == LinkFind(documents, order, c.prefix, c.number, 1)
        parent == LinkFind(documents, order, p.prefix, p.number, 1)
        args == [cid |-> cid, pid |-> pid]
    IN /\ pc = "tree"
       /\ LinkCount < MaxLinks
       /\ IF child = NoItem
          THEN /\ result' = [op |-> "link", args |-> args, arg |-> cid,
                             raised |-> "no matching child ID", ret |-> None]
               /\ UNCHANGED links
          ELSE IF parent = NoItem
          THEN /\ result' = [op |-> "link", args |-> args, arg |-> cid,
                             raised |-> "no matching parent ID", ret |-> None]
               /\ UNCHANGED links
          ELSE /\ links' = [links EXCEPT ![<<parent.document, parent.number>>] =
                               Append(@, id(documents, child.document, child.number))]
               /\ result' = [op |-> "link", args |-> args, arg |-> None,
                             raised |-> "none", ret |-> <<child, parent>>]
       /\ UNCHANGED <<documents, nodes, storage, pc>>

\* Node.link, called on the tree
Link(cid, pid) ==
    LET order == Iter(nodes, 1)
        c == split_id(cid)
        p == split_id(pid)
        child == LinkFind(documents, order, c.prefix, c.number, 1)
        parent == LinkFind(documents, order, p.prefix, p.number, 1)
        args == [cid |-> cid, pid |-> pid]
    IN /\ pc = "tree"
       /\ LinkCount < MaxLinks
       /\ IF child = NoItem
          THEN /\ result' = [op |-> "link", args |-> args, arg |-> cid,
                             raised |-> "no matching child ID", ret |-> None]
               /\ UNCHANGED links
          ELSE IF parent = NoItem
          THEN /\ result' = [op |-> "link", args |-> args, arg |-> cid,
                             raised |-> "no matching parent ID", ret |-> None]
               /\ UNCHANGED links
          ELSE /\ links' = [links EXCEPT ![<<child.document, child.number>>] =
                               Append(@, id(documents, parent.document, parent.number))]
               /\ result' = [op |-> "link", args |-> args, arg |-> None,
                             raised |-> "none", ret |-> <<child, parent>>]
       /\ UNCHANGED <<documents, nodes, storage, pc>>

\* Node.edit, called on the tree; opened is the path handed to _open
Edit(identifier, launch) ==
    LET order == Iter(nodes, 1)
        x == split_id(identifier)
        item == EditFind(documents, order, x.prefix, x.number, 1)
        args == [identifier |-> identifier]
    IN /\ pc = "tree"
       /\ IF item = NoItem
          THEN result' = [op |-> "edit", args |-> args, arg |-> identifier,
                          raised |-> "no matching ID", opened |-> None]
          ELSE result' = [op |-> "edit", args |-> args, arg |-> None,
                          raised |-> "none",
                          opened |-> IF launch THEN <<documents[item.document].path,
                                                      item.number>>
                                     ELSE None]
       /\ UNCHANGED <<documents, nodes, storage, links, pc>>

NextAssemble == FromList

InitItems == InitWith(DocumentLists(MaxItemDocs, ItemPrefixes, ItemLists(MaxNumber)))

IDs == IDPrefixes \X (1..MaxNumber)

NextItems ==
    \/ FromList
    \/ \E cid \in IDs, pid \in IDs : Link(cid, pid)
    \/ \E identifier \in IDs, launch \in BOOLEAN : Edit(identifier, launch)

SpecItems == InitItems /\ [][NextItems]_vars

InitTree == InitWith(DocumentLists(MaxTreeDocs, TreePrefixes, {<<>>}))

NextTree ==
    \/ FromList
    \/ \E self \in 1..Len(nodes), path \in 1..Len(documents) + 1,
          prefix \in TreePrefixes, parent \in TreePrefixes \cup {None} :
          New(self, path, prefix, parent)

SpecTree == InitTree /\ [][NextTree]_vars

SpecAssemble == InitAssemble /\ [][NextAssemble]_vars

---------------------------------------------------------------------------
(* Vocabulary of the properties of from_list *)

Indices(docs) == 1..Len(docs)

Min(S) == CHOOSE x \in S : \A y \in S : x <= y

Roots(docs) == {i \in Indices(docs) : docs[i].parent = None}

\* the documents a sequence of document indices holds, and whether it holds
\* each of them once
Range(seq) == {seq[i] : i \in 1..Len(seq)}

NoRepeat(seq) == \A i, j \in 1..Len(seq) : seq[i] = seq[j] => i = j

\* document i names document j as its parent, compared as str.lower() does
NamesParent(docs, i, j) ==
    /\ docs[i].parent # None
    /\ lower(docs[i].parent) = lower(docs[j].prefix)

\* the documents reached from the set S by following NamesParent k times or fewer
RECURSIVE Ancestors(_, _, _)
Ancestors(docs, S, k) ==
    IF k = 0 THEN S
    ELSE Ancestors(docs,
                   S \cup {j \in Indices(docs) : \E i \in S : NamesParent(docs, i, j)},
                   k - 1)

Acyclic(docs) ==
    \A i \in Indices(docs) :
        i \notin Ancestors(docs, {j \in Indices(docs) : NamesParent(docs, i, j)},
                           Len(docs))

\* the documents that hang, by exact string equality, below the root document
RECURSIVE Attachable(_, _, _)
Attachable(docs, S, k) ==
    IF k = 0 THEN S
    ELSE Attachable(docs,
                    S \cup {i \in Indices(docs) \ Roots(docs) :
                               \E j \in S : docs[i].parent = docs[j].prefix},
                    k - 1)

\* (parent prefix, child prefix) of every parent/child pair of the tree
Edges(docs, ns) ==
    UNION {{<<docs[ns[n].document].prefix, docs[ns[ns[n].children[c]].document].prefix>> :
               c \in 1..Len(ns[n].children)} : n \in 1..Len(ns)}

Shuffles(n) == {f \in [1..n -> 1..n] : \A i, j \in 1..n : f[i] = f[j] => i = j}

Permuted(docs, f) == [i \in 1..Len(docs) |-> docs[f[i]]]

TreePrefixesDistinct ==
    \A m, n \in 1..Len(nodes) :
        lower(documents[nodes[m].document].prefix)
            = lower(documents[nodes[n].document].prefix) => m = n

---------------------------------------------------------------------------
(* Properties of from_list *)

\* C1: when exactly one document has no parent, every other document's parent
\* equals, case-insensitively, the prefix of some document of the list, and the
\* parent relation has no cycle, from_list succeeds and iterating the tree
\* yields every document of the list exactly once.
C1_AssembleVisitsEveryDocumentOnce ==
    (/\ pc # "start"
     /\ Cardinality(Roots(documents)) = 1
     /\ \A i \in Indices(documents) \ Roots(documents) :
            \E j \in Indices(documents) : NamesParent(documents, i, j)
     /\ Acyclic(documents))
    => /\ pc = "tree"
       /\ result.raised = "none"
       /\ Range(Iter(nodes, 1)) = Indices(documents)
       /\ NoRepeat(Iter(nodes, 1))

\* C3 as stated: after a successful from_list no two nodes of the tree hold
\* documents with the same prefix (case-insensitively), whatever the input list.
C3_NoPrefixTwiceInAnyTree ==
    pc = "tree" => TreePrefixesDistinct

\* C3 amended: after a successful from_list on a list whose prefixes are
\* pairwise different (case-insensitively), no two nodes of the tree hold
\* documents with the same prefix.
C3_NoPrefixTwiceWhenInputDistinct ==
    (/\ pc = "tree"
     /\ \A i, j \in Indices(documents) :
            lower(documents[i].prefix) = lower(documents[j].prefix) => i = j)
    => TreePrefixesDistinct

C3_Witness ==
    /\ pc = "tree"
    /\ Len(nodes) = 3
    /\ \A i, j \in Indices(documents) :
            lower(documents[i].prefix) = lower(documents[j].prefix) => i = j

\* C4: when the list has a root document and a document whose parent equals no
\* prefix of the list, from_list raises "unplaced document" at the first pass
\* that removes nothing, naming the first document, in list order, of those
\* that cannot be attached below the root; no tree is returned.
C4_UnplaceableDocumentReported ==
    (/\ pc # "start"
     /\ Roots(documents) # {}
     /\ \E i \in Indices(documents) :
            /\ documents[i].parent # None
            /\ \A j \in Indices(documents) : documents[i].parent # documents[j].prefix)
    => LET ps == result.passes
           last == Len(ps)
           root == Min(Roots(documents))
           left == Indices(documents) \ Attachable(documents, {root}, Len(documents))
       IN /\ pc = "failed"
          /\ result.raised = "unplaced document"
          /\ nodes = <<>>
          /\ last >= 2
          /\ Len(ps[last]) = Len(ps[last - 1])
          /\ \A k \in 1..last - 2 : Len(ps[k + 1]) < Len(ps[k])
          /\ Range(ps[last]) = left
          /\ result.arg = Min(left)

C4_Witness ==
    /\ pc = "failed"
    /\ result.raised = "unplaced document"
    /\ Len(result.passes) = 3
    /\ Len(result.passes[3]) = 1
    /\ \E i \in Indices(documents) :
            /\ documents[i].parent # None
            /\ \A j \in Indices(documents) : documents[i].parent # documents[j].prefix

\* C5: when no document of the list (the empty list included) has parent None,
\* from_list raises "no root document" before any placement; otherwise the
\* first document with parent None is the root and that error is not raised.
C5_NoRootOrFirstRoot ==
    pc # "start"
    => IF Roots(documents) = {}
       THEN /\ pc = "failed"
            /\ result.raised = "no root document"
            /\ result.passes = <<>>
            /\ nodes = <<>>
       ELSE /\ result.raised # "no root document"
            /\ result.root = Min(Roots(documents))
            /\ pc = "tree" => /\ nodes[1].document = Min(Roots(documents))
                              /\ nodes[1].parent = 0

C5_WitnessFirstRoot ==
    /\ pc = "tree"
    /\ Len(documents) = 3
    /\ documents[1].parent # None
    /\ nodes[1].document # 1

C5_WitnessNoRoot ==
    /\ pc = "failed"
    /\ result.raised = "no root document"
    /\ Len(documents) >= 2

\* C6: from_list on a permutation of the list fails when from_list on the list
\* fails and succeeds when it succeeds, and then both trees have the same root
\* prefix and the same (parent prefix, child prefix) pairs.
C6_AssemblyOrderIndependent ==
    pc # "start"
    => \A f \in Shuffles(Len(documents)) :
          LET docs == Permuted(documents, f)
              r == from_list(docs)
          IN /\ (r.raised = "none") <=> (pc = "tree")
             /\ pc = "tree" =>
                   /\ docs[r.nodes[1].document].prefix
                         = documents[nodes[1].document].prefix
                   /\ Edges(docs, r.nodes) = Edges(documents, nodes)

C6_Witness ==
    /\ pc = "tree"
    /\ \E n \in 1..Len(nodes) :
          /\ nodes[n].parent # 0
          /\ nodes[nodes[n].parent].parent # 0
          /\ nodes[n].document < nodes[nodes[n].parent].document

---------------------------------------------------------------------------
(* Properties of the tree under new *)

\* how many times node n appears in the children list of node m
TimesChild(ns, m, n) ==
    Cardinality({c \in 1..Len(ns[m].children) : ns[m].children[c] = n})

\* the nodes met by following the parent references from n, k times or fewer
RECURSIVE Up(_, _, _)
Up(ns, n, k) ==
    IF k = 0 \/ ns[n].parent = 0 THEN {}
    ELSE {ns[n].parent} \cup Up(ns, ns[n].parent, k - 1)

\* the nodes met from the set S by following the children lists
RECURSIVE Down(_, _, _)
Down(ns, S, k) ==
    IF k = 0 THEN S
    ELSE Down(ns, S \cup UNION {Range(ns[n].children) : n \in S}, k - 1)

\* C2: after a successful from_list and any new calls, exactly one node has no
\* parent, every other node's document names as parent the prefix of the
\* document of its parent node, every node is once in the children of its
\* parent node and in no other children list, no node is its own ancestor and
\* every node is reached from the root.
C2_SingleRootedTree ==
    pc = "tree"
    => /\ Cardinality({n \in 1..Len(nodes) : nodes[n].parent = 0}) = 1
       /\ nodes[1].parent = 0
       /\ \A n \in 1..Len(nodes) :
             /\ nodes[n].document \in Indices(documents)
             /\ nodes[n].parent \in 0..Len(nodes)
             /\ nodes[n].parent # 0 =>
                   documents[nodes[n].document].parent
                      = documents[nodes[nodes[n].parent].document].prefix
             /\ \A m \in 1..Len(nodes) :
                   TimesChild(nodes, m, n) = IF m = nodes[n].parent THEN 1 ELSE 0
             /\ n \notin Up(nodes, n, Len(nodes))
       /\ Down(nodes, {1}, Len(nodes)) = 1..Len(nodes)

C2_Witness ==
    /\ pc = "tree"
    /\ result.op = "new"
    /\ result.raised = "none"
    /\ nodes[Len(nodes)].parent # 1
    /\ Len(nodes) = 3

C9_WitnessPlaced ==
    /\ pc = "tree"
    /\ result.op = "new"
    /\ result.raised = "none"
    /\ Len(nodes[nodes[Len(nodes)].parent].children) = 2

---------------------------------------------------------------------------
(* Properties of link and edit *)

\* document d holds the item an ID names: its prefix is the ID's prefix,
\* case-insensitively, and one of its items has the ID's number
Holds(d, x) ==
    /\ lower(documents[d].prefix) = lower(x[1])
    /\ x[2] \in Range(documents[d].items)

\* some document of the tree holds the item the ID names
Resolves(x) == \E d \in Range(Iter(nodes, 1)) : Holds(d, x)

\* that item, in the first such document of the tree in pre-order
Resolved(x) ==
    LET order == Iter(nodes, 1)
        first == Min({i \in 1..Len(order) : Holds(order[i], x)})
    IN [document |-> order[first], number |-> x[2]]

\* C7: a link whose two IDs resolve applies one add_link(parent.id) to the
\* child item, changes no other item and no node, and returns the pair; it
\* raises "no matching child ID" when the child ID does not resolve and
\* "no matching parent ID" when only the parent ID does not, and then changes
\* no item.
C7_LinkEffect ==
    [][result'.op = "link"
       => LET cid == result'.args.cid
              pid == result'.args.pid
          IN /\ nodes' = nodes
             /\ documents' = documents
             /\ storage' = storage
             /\ IF ~Resolves(cid)
                THEN /\ result'.raised = "no matching child ID"
                     /\ links' = links
                ELSE IF ~Resolves(pid)
                THEN /\ result'.raised = "no matching parent ID"
                     /\ links' = links
                ELSE LET child == Resolved(cid)
                         parent == Resolved(pid)
                     IN /\ result'.raised = "none"
                        /\ result'.ret = <<child, parent>>
                        /\ links' = [links EXCEPT
                              ![<<child.document, child.number>>] =
                                  Append(@, <<documents[parent.document].prefix,
                                              parent.number>>)]
      ]_vars

C7_Witness ==
    /\ result.op = "link"
    /\ result.raised = "none"
    /\ result.ret[1].document # result.ret[2].document
    /\ Len(links[<<result.ret[1].document, result.ret[1].number>>]) = 1
    /\ Cardinality(DOMAIN links) >= 2

\* C8: the error of a failed link carries the ID that did not resolve: cid
\* when the child is missing, pid when the parent is missing.
C8_LinkErrorNamesMissingID ==
    (result.op = "link" /\ result.args.cid # result.args.pid)
    => /\ result.raised = "no matching child ID" => result.arg = result.args.cid
       /\ result.raised = "no matching parent ID" => result.arg = result.args.pid

\* C10: edit of an ID succeeds exactly when the search of link finds an item
\* for that ID, which is exactly when some document of the tree with the ID's
\* prefix holds an item with its number; otherwise edit raises
\* "no matching ID".
C10_EditResolvesAsLink ==
    result.op = "edit"
    => LET x == result.args.identifier
           found == LinkFind(documents, Iter(nodes, 1), x[1], x[2], 1) # NoItem
       IN /\ (result.raised = "none") <=> found
          /\ found <=> Resolves(x)
          /\ result.raised # "none" => result.raised = "no matching ID"

===========================================================================
